---------------------------- MODULE Spec2Model ----------------------------
(***************************************************************************)
(* Model of the skip-resolution scripts of metatar:                        *)
(*   scripts/py/dupliskip.py  (duplicate-coverage scanner)                 *)
(*   scripts/py/willskip.py   (interactive query tool)                     *)
(* A string is a sequence of one-character strings, so that the Python    *)
(* string operations the scripts use (strip, lower, startswith, slicing,   *)
(* replace, in, os.path.basename, fnmatch.fnmatch) are computed character  *)
(* by character.  One run of one script is one behaviour: Init chooses the *)
(* script, its argument vector and the document on standard input.         *)
(***************************************************************************)
EXTENDS Naturals, Sequences, FiniteSets, TLC

VARIABLES prog, argv, input, lineno, skiplist, globlist, found_skiplist,
          current_filename, pc, scan, out, status

vars == <<prog, argv, input, lineno, skiplist, globlist, found_skiplist,
          current_filename, pc, scan, out, status>>

(***************************************************************************)
(* Bounds and input domains                                                *)
(***************************************************************************)
\* Largest number of lines of the document on standard input.
MaxLines == 3

\* The lines a document is made of (each ends with its newline).
LineSkiplist == <<"s", "k", "i", "p", "l", "i", "s", "t", ":", "\n">>
LineFilename == <<"-", " ", "F", "i", "l", "e", "n", "a", "m", "e", ":", " ", "x", "/", "a", "\n">>
LineSkipTrue == <<" ", " ", "S", "k", "i", "p", ":", " ", "t", "r", "u", "e", "\n">>
LineSkipTrueComment == <<"S", "k", "i", "p", ":", " ", "t", "r", "u", "e", " ", "#", " ", "a", "\n">>
LineItemA == <<"-", " ", "a", "\n">>
LineItemXA == <<"-", " ", "x", "/", "a", "\n">>
LineItemGlob == <<"-", " ", "\"", "[", "!", "b", "]", "a", "*", "\"", "\n">>
LineItemDir == <<"-", " ", "x", "/", "\n">>
LineItemList == <<"-", " ", "-", "l", "\n">>

Lines == {LineSkiplist, LineFilename, LineSkipTrue, LineSkipTrueComment,
          LineItemA, LineItemXA, LineItemGlob, LineItemDir, LineItemList}

\* The query words given to willskip.
WordList == <<"-", "l">>
WordA == <<"a">>
WordXA == <<"x", "/", "a">>
WordAbsXA == <<"/", "x", "/", "a">>
WordDirXA == <<"x", "/", "a", "/">>
WordXa == <<"x", "a">>
WordAbsXa == <<"/", "x", "a">>
WordBA == <<"b", "/", "a">>
WordBXa == <<"b", "/", "x", "a">>
WordBa == <<"b", "a">>

Words == {WordList, WordA, WordXA, WordAbsXA, WordDirXA, WordXa, WordAbsXa,
          WordBA, WordBXa, WordBa}

Documents == UNION {[1..n -> Lines] : n \in 0..MaxLines}

(***************************************************************************)
(* Python string operations                                                *)
(***************************************************************************)
Range(s) == {s[i] : i \in 1..Len(s)}

\* The printable ASCII characters in code order; Ord gives the order that a
\* character range of a glob class compares by.  (The slot of code 96, the
\* grave accent, is left empty: it cannot be written in a string here.)
Ascii ==
  <<" ", "!", "\"", "#", "$", "%", "&", "'", "(", ")", "*", "+", ",", "-", ".", "/",
    "0", "1", "2", "3", "4", "5", "6", "7", "8", "9", ":", ";", "<", "=", ">", "?",
    "@", "A", "B", "C", "D", "E", "F", "G", "H", "I", "J", "K", "L", "M", "N", "O",
    "P", "Q", "R", "S", "T", "U", "V", "W", "X", "Y", "Z", "[", "\\", "]", "^", "_",
    "",  "a", "b", "c", "d", "e", "f", "g", "h", "i", "j", "k", "l", "m", "n", "o",
    "p", "q", "r", "s", "t", "u", "v", "w", "x", "y", "z", "{", "|", "}", "~">>

Ord(c) == IF \E i \in 1..Len(Ascii) : Ascii[i] = c
          THEN 31 + (CHOOSE i \in 1..Len(Ascii) : Ascii[i] = c)
          ELSE 0

UpperCase == <<"A", "B", "C", "D", "E", "F", "G", "H", "I", "J", "K", "L", "M",
               "N", "O", "P", "Q", "R", "S", "T", "U", "V", "W", "X", "Y", "Z">>
LowerCase == <<"a", "b", "c", "d", "e", "f", "g", "h", "i", "j", "k", "l", "m",
               "n", "o", "p", "q", "r", "s", "t", "u", "v", "w", "x", "y", "z">>

\* str.lower(), one character
LowerChar(c) == IF \E i \in 1..Len(UpperCase) : UpperCase[i] = c
                THEN LowerCase[CHOOSE i \in 1..Len(UpperCase) : UpperCase[i] = c]
                ELSE c

\* str.lower()
Lower(s) == [i \in 1..Len(s) |-> LowerChar(s[i])]

\* the characters str.strip() removes
IsSpace(c) == c \in {" ", "\t", "\n", "\r", "\f"}

\* str.strip(): leading and trailing whitespace removed
Strip(s) ==
  LET keep == {i \in 1..Len(s) : ~IsSpace(s[i])}
  IN  IF keep = {} THEN <<>>
      ELSE LET first == CHOOSE i \in keep : \A j \in keep : i <= j
               last  == CHOOSE i \in keep : \A j \in keep : j <= i
           IN  SubSeq(s, first, last)

\* str.startswith(prefix)
StartsWith(s, prefix) ==
  /\ Len(prefix) <= Len(s)
  /\ SubSeq(s, 1, Len(prefix)) = prefix

\* str.endswith(suffix)
EndsWith(s, suffix) ==
  /\ Len(suffix) <= Len(s)
  /\ SubSeq(s, Len(s) - Len(suffix) + 1, Len(s)) = suffix

\* s[n:]
DropFirst(s, n) == SubSeq(s, n + 1, Len(s))

\* s[1:-1]
DropEnds(s) == SubSeq(s, 2, Len(s) - 1)

\* s.replace(" ", "")
RemoveSpaces(s) == SelectSeq(s, LAMBDA c : c # " ")

\* sub in s
Contains(s, sub) ==
  \E i \in 1..(Len(s) + 1) :
     /\ i + Len(sub) - 1 <= Len(s)
     /\ SubSeq(s, i, i + Len(sub) - 1) = sub

\* os.path.basename(p): what follows the last "/"
Basename(p) ==
  LET slashes == {i \in 1..Len(p) : p[i] = "/"}
  IN  IF slashes = {} THEN p
      ELSE DropFirst(p, CHOOSE i \in slashes : \A j \in slashes : j <= i)

Slash == <<"/">>

(***************************************************************************)
(* fnmatch.fnmatch(name, pat): "*" any run of characters, "?" any one      *)
(* character, "[seq]" one character of seq, "[!seq]" one character not in  *)
(* seq, a "[" with no closing "]" is itself; the whole name must match.    *)
(***************************************************************************)
RECURSIVE FindClose(_, _)
\* index of the first "]" of pat at or after k, 0 when there is none
FindClose(pat, k) ==
  IF k > Len(pat) THEN 0
  ELSE IF pat[k] = "]" THEN k
  ELSE FindClose(pat, k + 1)

\* index of the "]" closing the class opened at pat[j], 0 when it is not closed;
\* a "]" right after "[" or "[!" belongs to the class
ClassEnd(pat, j) ==
  LET k1 == IF j + 1 <= Len(pat) /\ pat[j + 1] = "!" THEN j + 2 ELSE j + 1
      k2 == IF k1 <= Len(pat) /\ pat[k1] = "]" THEN k1 + 1 ELSE k1
  IN  FindClose(pat, k2)

RECURSIVE ClassHas(_, _, _)
\* whether character c is one of body[k..], where x-y is a range
ClassHas(c, body, k) ==
  IF k > Len(body) THEN FALSE
  ELSE IF k + 2 <= Len(body) /\ body[k + 1] = "-"
       THEN \/ (Ord(body[k]) <= Ord(c) /\ Ord(c) <= Ord(body[k + 2]))
            \/ ClassHas(c, body, k + 3)
       ELSE \/ body[k] = c
            \/ ClassHas(c, body, k + 1)

\* whether character c matches the class whose text (between the brackets) is stuff
InClass(c, stuff) ==
  IF stuff[1] = "!" THEN ~ClassHas(c, stuff, 2) ELSE ClassHas(c, stuff, 1)

RECURSIVE FnMatchFrom(_, _, _, _)
\* whether name[i..] matches pat[j..]
FnMatchFrom(name, pat, i, j) ==
  IF j > Len(pat) THEN i > Len(name)
  ELSE IF pat[j] = "*"
       THEN \E k \in i..(Len(name) + 1) : FnMatchFrom(name, pat, k, j + 1)
  ELSE IF pat[j] = "?"
       THEN i <= Len(name) /\ FnMatchFrom(name, pat, i + 1, j + 1)
  ELSE IF pat[j] = "[" /\ ClassEnd(pat, j) # 0
       THEN /\ i <= Len(name)
            /\ InClass(name[i], SubSeq(pat, j + 1, ClassEnd(pat, j) - 1))
            /\ FnMatchFrom(name, pat, i + 1, ClassEnd(pat, j) + 1)
  ELSE /\ i <= Len(name)
       /\ name[i] = pat[j]
       /\ FnMatchFrom(name, pat, i + 1, j + 1)

FnMatch(name, pat) == FnMatchFrom(name, pat, 1, 1)


(***************************************************************************)
(* Skip-source extraction.  The loop is written out twice in the source,   *)
(* in dupliskip.get_skiplist_globlist (D_) and in willskip.main (W_).      *)
(***************************************************************************)
\* skiplist = [], globlist = [], found_skiplist = False, current_filename = ""
ExtractInit ==
  [skiplist |-> <<>>, globlist |-> <<>>, found_skiplist |-> FALSE,
   current_filename |-> <<>>]

\* the extraction variables of the running script, as a record
ExtractState ==
  [skiplist |-> skiplist, globlist |-> globlist,
   found_skiplist |-> found_skiplist, current_filename |-> current_filename]

\* ---- dupliskip.get_skiplist_globlist

\* "skiplist:" section header (dupliskip): line.lower().strip().startswith("skiplist:")
D_IsSkiplistLine(line) ==
  StartsWith(Strip(Lower(line)), <<"s", "k", "i", "p", "l", "i", "s", "t", ":">>)

\* D_IsFilenameLine with the prefix in lower case
D_IsFilenameLineLowerCase(line) ==
  StartsWith(line, <<"-", " ", "f", "i", "l", "e", "n", "a", "m", "e", ":">>)

\* filename record: line.startswith("- Filename:")
D_IsFilenameLine(line) ==
  StartsWith(line, <<"-", " ", "F", "i", "l", "e", "n", "a", "m", "e", ":">>)

\* line[11:].strip()
D_FilenameOf(line) == Strip(DropFirst(line, 11))

\* D_IsSkipTrue with == for in
D_IsSkipTrueEquals(line) ==
  RemoveSpaces(Strip(Lower(line))) = <<"s", "k", "i", "p", ":", "t", "r", "u", "e">>

\* flag rule: "skip:true" in line.lower().strip().replace(" ", "")
D_IsSkipTrue(line) ==
  Contains(RemoveSpaces(Strip(Lower(line))), <<"s", "k", "i", "p", ":", "t", "r", "u", "e">>)

\* list item: the stripped line, without a leading "-" and the whitespace after it
D_Item(line) ==
  IF StartsWith(Strip(line), <<"-">>)
  THEN Strip(DropFirst(Strip(line), 1))
  ELSE Strip(line)

\* "*" in filename_or_glob
D_IsGlob(item) == Contains(item, <<"*">>)

\* one pair of quotes of a kind removed
D_StripQuote(g, q) ==
  IF StartsWith(g, <<q>>) /\ EndsWith(g, <<q>>) THEN DropEnds(g) ELSE g

\* double quotes removed, then single quotes
D_Unquote(g) == D_StripQuote(D_StripQuote(g, "\""), "'")

\* One iteration of the loop over the lines of standard input; st is the record
\* of skiplist, globlist, found_skiplist and current_filename.
D_ExtractLine(st, line) ==
  IF D_IsSkiplistLine(line)
  THEN [st EXCEPT !.found_skiplist = TRUE]
  ELSE IF D_IsFilenameLine(line)
  THEN [st EXCEPT !.current_filename = D_FilenameOf(line)]
  ELSE LET flagged == IF D_IsSkipTrue(line)
                      THEN Append(st.skiplist, st.current_filename)
                      ELSE st.skiplist
       IN  IF ~st.found_skiplist
           THEN [st EXCEPT !.skiplist = flagged]
           ELSE IF D_IsGlob(D_Item(line))
           THEN [st EXCEPT !.skiplist = flagged,
                           !.globlist = Append(@, D_Unquote(D_Item(line)))]
           ELSE [st EXCEPT !.skiplist = Append(flagged, D_Item(line))]

RECURSIVE D_ExtractFrom(_, _, _)
D_ExtractFrom(st, doc, i) ==
  IF i > Len(doc) THEN st
  ELSE LET next == D_ExtractLine(st, doc[i])
       IN  D_ExtractFrom(next, doc, i + 1)

\* The whole pass over a document.
D_Extract(doc) == D_ExtractFrom(ExtractInit, doc, 1)

\* ---- willskip.main, lines 17-42

\* "skiplist:" section header (willskip): line.lower().strip().startswith("skiplist:")
W_IsSkiplistLine(line) ==
  StartsWith(Strip(Lower(line)), <<"s", "k", "i", "p", "l", "i", "s", "t", ":">>)

\* filename record: line.startswith("- Filename:")
W_IsFilenameLine(line) ==
  StartsWith(line, <<"-", " ", "F", "i", "l", "e", "n", "a", "m", "e", ":">>)

\* line[11:].strip()
W_FilenameOf(line) == Strip(DropFirst(line, 11))

\* flag rule: "skip:true" in line.lower().strip().replace(" ", "")
W_IsSkipTrue(line) ==
  Contains(RemoveSpaces(Strip(Lower(line))), <<"s", "k", "i", "p", ":", "t", "r", "u", "e">>)

\* list item: the stripped line, without a leading "-" and the whitespace after it
W_Item(line) ==
  IF StartsWith(Strip(line), <<"-">>)
  THEN Strip(DropFirst(Strip(line), 1))
  ELSE Strip(line)

\* "*" in filename_or_glob
W_IsGlob(item) == Contains(item, <<"*">>)

\* one pair of quotes of a kind removed
W_StripQuote(g, q) ==
  IF StartsWith(g, <<q>>) /\ EndsWith(g, <<q>>) THEN DropEnds(g) ELSE g

\* double quotes removed, then single quotes
W_Unquote(g) == W_StripQuote(W_StripQuote(g, "\""), "'")

\* One iteration of the loop over the lines of standard input; st is the record
\* of skiplist, globlist, found_skiplist and current_filename.
W_ExtractLine(st, line) ==
  IF W_IsSkiplistLine(line)
  THEN [st EXCEPT !.found_skiplist = TRUE]
  ELSE IF W_IsFilenameLine(line)
  THEN [st EXCEPT !.current_filename = W_FilenameOf(line)]
  ELSE LET flagged == IF W_IsSkipTrue(line)
                      THEN Append(st.skiplist, st.current_filename)
                      ELSE st.skiplist
       IN  IF ~st.found_skiplist
           THEN [st EXCEPT !.skiplist = flagged]
           ELSE IF W_IsGlob(W_Item(line))
           THEN [st EXCEPT !.skiplist = flagged,
                           !.globlist = Append(@, W_Unquote(W_Item(line)))]
           ELSE [st EXCEPT !.skiplist = Append(flagged, W_Item(line))]

RECURSIVE W_ExtractFrom(_, _, _)
W_ExtractFrom(st, doc, i) ==
  IF i > Len(doc) THEN st
  ELSE LET next == W_ExtractLine(st, doc[i])
       IN  W_ExtractFrom(next, doc, i + 1)

\* The whole pass over a document.
W_Extract(doc) == W_ExtractFrom(ExtractInit, doc, 1)


(***************************************************************************)
(* Skip resolution.  What a script prints is modelled as a sequence of     *)
(* messages: kind names the text printed, word the query, by the literal   *)
(* entry or glob expression the text names.                                *)
(***************************************************************************)
Msg(kind, word, by) == [kind |-> kind, word |-> word, by |-> by]

HitKinds == {"skipped", "path", "glob"}
SimilarKinds == {"similar_path", "similar_glob"}

\* the messages of s whose kind is in kinds
OfKind(s, kinds) == SelectSeq(s, LAMBDA m : m.kind \in kinds)

\* ---- dupliskip.skipped

\* word in skiplist
D_Exact(word, sl) == word \in Range(sl)

\* word == skipfilename + "/", "/" + skipfilename or "/" + skipfilename + "/"
D_PathForm(word, e) ==
  \/ word = e \o Slash
  \/ word = Slash \o e
  \/ word = Slash \o e \o Slash

\* D_GlobHit with the slash put before the word instead of the pattern
D_GlobHitSlashOnWord(word, g) == FnMatch(word, g) \/ FnMatch(Slash \o word, g)

\* fnmatch.fnmatch(word, globexpr) or fnmatch.fnmatch(word, "/" + globexpr)
D_GlobHit(word, g) == FnMatch(word, g) \/ FnMatch(word, Slash \o g)

\* D_PathLoop leaving the loop after its first entry
D_PathLoopFirstOnly(word, sl, i) ==
  IF i > Len(sl) THEN <<>>
  ELSE IF D_PathForm(word, sl[i]) THEN <<Msg("path", word, sl[i])>>
  ELSE IF word = Basename(sl[i]) /\ sl[i] # Basename(sl[i])
       THEN <<Msg("path", word, sl[i])>>
  ELSE <<>>

RECURSIVE D_PathLoop(_, _, _)
\* The loop over the literal entries from entry i on: what it prints, which is
\* one message when an entry hits and nothing when the loop ends or is broken
\* out of by an entry that is its own basename.
D_PathLoop(word, sl, i) ==
  IF i > Len(sl) THEN <<>>
  ELSE IF D_PathForm(word, sl[i]) THEN <<Msg("path", word, sl[i])>>
  ELSE IF word = Basename(sl[i])
       THEN IF sl[i] = Basename(sl[i]) THEN <<>> ELSE <<Msg("path", word, sl[i])>>
  ELSE D_PathLoop(word, sl, i + 1)

RECURSIVE D_GlobLoop(_, _, _)
\* The loop over the glob expressions: the first one that matches is printed.
D_GlobLoop(word, gl, i) ==
  IF i > Len(gl) THEN <<>>
  ELSE IF D_GlobHit(word, gl[i]) THEN <<Msg("glob", word, gl[i])>>
  ELSE D_GlobLoop(word, gl, i + 1)

RECURSIVE D_SimilarGlobLoop(_, _, _)
\* The similar-glob loop: globs whose basename is "*" are passed over.
D_SimilarGlobLoop(word, gl, i) ==
  IF i > Len(gl) THEN <<>>
  ELSE IF Basename(gl[i]) = <<"*">> THEN D_SimilarGlobLoop(word, gl, i + 1)
  ELSE IF FnMatch(Basename(word), Basename(gl[i]))
       THEN <<Msg("similar_glob", word, gl[i])>>
  ELSE D_SimilarGlobLoop(word, gl, i + 1)

RECURSIVE D_SimilarPathLoop(_, _, _)
\* The similar-path loop: equal basenames, entries with an empty basename are
\* passed over after the comparison.
D_SimilarPathLoop(word, sl, i) ==
  IF i > Len(sl) THEN <<>>
  ELSE IF Basename(word) = Basename(sl[i])
       THEN IF Basename(sl[i]) = <<>>
            THEN D_SimilarPathLoop(word, sl, i + 1)
            ELSE <<Msg("similar_path", word, sl[i])>>
  ELSE D_SimilarPathLoop(word, sl, i + 1)

\* skipped(word, skiplist, globlist): the count it returns and what it prints
D_Skipped(word, sl, gl) ==
  LET exact == IF D_Exact(word, sl) THEN <<Msg("skipped", word, word)>> ELSE <<>>
      hits == exact \o D_PathLoop(word, sl, 1) \o D_GlobLoop(word, gl, 1)
      skipcount == Len(hits)
      notes == IF skipcount = 0
               THEN D_SimilarPathLoop(word, sl, 1) \o D_SimilarGlobLoop(word, gl, 1)
                    \o <<Msg("not_skipped", word, <<>>)>>
               ELSE <<>>
  IN  [count |-> skipcount, out |-> hits \o notes]

\* D_IsDuplicate with >= for >
D_IsDuplicateAtLeastOne(count) == count >= 1

\* skipped(...) > 1 in main
D_IsDuplicate(count) == count > 1

\* sys.exit(1) after "Duplicate skip!"
D_ExitDuplicate == 1

\* main returns without calling sys.exit: the interpreter exits with 0
D_ExitSuccess == 0

\* ---- willskip.main, lines 44-93

\* W_Exact looking up the basename of the word
W_ExactBasename(word, sl) == Basename(word) \in Range(sl)

\* word in skiplist
W_Exact(word, sl) == word \in Range(sl)

\* word == skipfilename + "/", "/" + skipfilename or "/" + skipfilename + "/"
W_PathForm(word, e) ==
  \/ word = e \o Slash
  \/ word = Slash \o e
  \/ word = Slash \o e \o Slash

\* W_GlobHit without the second test
W_GlobHitNoSlash(word, g) == FnMatch(word, g)

\* fnmatch.fnmatch(word, globexpr) or fnmatch.fnmatch(word, "/" + globexpr)
W_GlobHit(word, g) == FnMatch(word, g) \/ FnMatch(word, Slash \o g)

RECURSIVE W_PathLoop(_, _, _)
\* The loop over the literal entries from entry i on: what it prints, which is
\* one message when an entry hits and nothing when the loop ends or is broken
\* out of by an entry that is its own basename.
W_PathLoop(word, sl, i) ==
  IF i > Len(sl) THEN <<>>
  ELSE IF W_PathForm(word, sl[i]) THEN <<Msg("path", word, sl[i])>>
  ELSE IF word = Basename(sl[i])
       THEN IF sl[i] = Basename(sl[i]) THEN <<>> ELSE <<Msg("path", word, sl[i])>>
  ELSE W_PathLoop(word, sl, i + 1)

RECURSIVE W_GlobLoop(_, _, _)
\* The loop over the glob expressions: the first one that matches is printed.
W_GlobLoop(word, gl, i) ==
  IF i > Len(gl) THEN <<>>
  ELSE IF W_GlobHit(word, gl[i]) THEN <<Msg("glob", word, gl[i])>>
  ELSE W_GlobLoop(word, gl, i + 1)

RECURSIVE W_SimilarGlobLoop(_, _, _)
\* The similar-glob loop: globs whose basename is "*" are passed over.
W_SimilarGlobLoop(word, gl, i) ==
  IF i > Len(gl) THEN <<>>
  ELSE IF Basename(gl[i]) = <<"*">> THEN W_SimilarGlobLoop(word, gl, i + 1)
  ELSE IF FnMatch(Basename(word), Basename(gl[i]))
       THEN <<Msg("similar_glob", word, gl[i])>>
  ELSE W_SimilarGlobLoop(word, gl, i + 1)

RECURSIVE W_SimilarPathLoop(_, _, _)
\* The similar-path loop: entries with an empty basename are passed over
\* before the comparison.
W_SimilarPathLoop(word, sl, i) ==
  IF i > Len(sl) THEN <<>>
  ELSE IF Basename(sl[i]) = <<>> THEN W_SimilarPathLoop(word, sl, i + 1)
  ELSE IF Basename(word) = Basename(sl[i])
       THEN <<Msg("similar_path", word, sl[i])>>
  ELSE W_SimilarPathLoop(word, sl, i + 1)

\* the statuses willskip.main passes to sys.exit
W_ExitList == 0
W_ExitSkipped == 0
W_ExitNotSkipped == 1

\* W_ExitUsage with a status of its own
W_ExitUsageDistinct == W_ExitNotSkipped + 1

W_ExitUsage == 1

\* The part of main after the "-l" test: the status it exits with and what it
\* prints.  It exits at the first message.
W_Resolve(word, sl, gl) ==
  IF W_Exact(word, sl)
  THEN [status |-> W_ExitSkipped, out |-> <<Msg("skipped", word, word)>>]
  ELSE IF W_PathLoop(word, sl, 1) # <<>>
  THEN [status |-> W_ExitSkipped, out |-> W_PathLoop(word, sl, 1)]
  ELSE IF W_GlobLoop(word, gl, 1) # <<>>
  THEN [status |-> W_ExitSkipped, out |-> W_GlobLoop(word, gl, 1)]
  ELSE IF W_SimilarPathLoop(word, sl, 1) # <<>>
  THEN [status |-> W_ExitNotSkipped, out |-> W_SimilarPathLoop(word, sl, 1)]
  ELSE IF W_SimilarGlobLoop(word, gl, 1) # <<>>
  THEN [status |-> W_ExitNotSkipped, out |-> W_SimilarGlobLoop(word, gl, 1)]
  ELSE [status |-> W_ExitNotSkipped, out |-> <<Msg("not_skipped", word, <<>>)>>]

(***************************************************************************)
(* The state machine.                                                      *)
(*   prog     the script that runs                                         *)
(*   argv     its arguments (sys.argv[1:])                                 *)
(*   input    the lines of standard input, lineno of them consumed         *)
(*   pc       "start", "read", "scan" (dupliskip), "resolve" (willskip),   *)
(*            "done"                                                       *)
(*   scan     dupliskip.main: the number of entries skipped() was called on*)
(*   out      what was printed                                             *)
(*   status   <<>> while running, <<n>> once exited with status n          *)
(***************************************************************************)
Init ==
  /\ prog \in {"dupliskip", "willskip"}
  /\ argv \in IF prog = "willskip" THEN {<<>>} \cup {<<w>> : w \in Words} ELSE {<<>>}
  /\ input \in Documents
  /\ lineno = 0
  /\ skiplist = <<>>
  /\ globlist = <<>>
  /\ found_skiplist = FALSE
  /\ current_filename = <<>>
  /\ pc = IF prog = "willskip" THEN "start" ELSE "read"
  /\ scan = 0
  /\ out = <<>>
  /\ status = <<>>

\* the extraction variables take the values of record st
SetExtract(st) ==
  /\ skiplist' = st.skiplist
  /\ globlist' = st.globlist
  /\ found_skiplist' = st.found_skiplist
  /\ current_filename' = st.current_filename

extractVars == <<skiplist, globlist, found_skiplist, current_filename>>

\* dupliskip.get_skiplist_globlist: one line of standard input
D_ReadLine ==
  /\ prog = "dupliskip" /\ pc = "read" /\ lineno < Len(input)
  /\ SetExtract(D_ExtractLine(ExtractState, input[lineno + 1]))
  /\ lineno' = lineno + 1
  /\ UNCHANGED <<prog, argv, input, pc, scan, out, status>>

\* dupliskip.get_skiplist_globlist: end of input, return skiplist, globlist
D_Return ==
  /\ prog = "dupliskip" /\ pc = "read" /\ lineno = Len(input)
  /\ pc' = "scan"
  /\ UNCHANGED <<prog, argv, input, lineno, extractVars, scan, out, status>>

\* dupliskip.main: one iteration of the loop over skiplist
D_ScanEntry ==
  /\ prog = "dupliskip" /\ pc = "scan" /\ scan < Len(skiplist)
  /\ LET filename == skiplist[scan + 1]
         r == D_Skipped(filename, skiplist, globlist)
     IN  /\ scan' = scan + 1
         /\ IF D_IsDuplicate(r.count)
            THEN /\ out' = out \o r.out \o <<Msg("duplicate", filename, <<>>)>>
                 /\ status' = <<D_ExitDuplicate>>
                 /\ pc' = "done"
            ELSE /\ out' = out \o r.out
                 /\ UNCHANGED <<status, pc>>
  /\ UNCHANGED <<prog, argv, input, lineno, extractVars>>

\* dupliskip.main: the loop is over, "No duplicate skips. :)"
D_Finish ==
  /\ prog = "dupliskip" /\ pc = "scan" /\ scan = Len(skiplist)
  /\ out' = Append(out, Msg("no_duplicates", <<>>, <<>>))
  /\ status' = <<D_ExitSuccess>>
  /\ pc' = "done"
  /\ UNCHANGED <<prog, argv, input, lineno, extractVars, scan>>

\* willskip.main: word = sys.argv[1], usage and exit when there is none
W_Start ==
  /\ prog = "willskip" /\ pc = "start"
  /\ IF argv = <<>>
     THEN /\ out' = Append(out, Msg("usage", <<>>, <<>>))
          /\ status' = <<W_ExitUsage>>
          /\ pc' = "done"
     ELSE /\ pc' = "read"
          /\ UNCHANGED <<out, status>>
  /\ UNCHANGED <<prog, argv, input, lineno, extractVars, scan>>

\* willskip.main: one line of standard input
W_ReadLine ==
  /\ prog = "willskip" /\ pc = "read" /\ lineno < Len(input)
  /\ SetExtract(W_ExtractLine(ExtractState, input[lineno + 1]))
  /\ lineno' = lineno + 1
  /\ UNCHANGED <<prog, argv, input, pc, scan, out, status>>

\* willskip.main: end of input
W_EndOfInput ==
  /\ prog = "willskip" /\ pc = "read" /\ lineno = Len(input)
  /\ pc' = "resolve"
  /\ UNCHANGED <<prog, argv, input, lineno, extractVars, scan, out, status>>

\* willskip.main: word == "-l", the two lists are printed
W_List ==
  /\ prog = "willskip" /\ pc = "resolve" /\ argv[1] = WordList
  /\ out' = out \o [i \in 1..Len(skiplist) |-> Msg("list_entry", <<>>, skiplist[i])]
                \o [i \in 1..Len(globlist) |-> Msg("list_glob", <<>>, globlist[i])]
  /\ status' = <<W_ExitList>>
  /\ pc' = "done"
  /\ UNCHANGED <<prog, argv, input, lineno, extractVars, scan>>

\* willskip.main: the checks, the similarity notes and the exit
W_Query ==
  /\ prog = "willskip" /\ pc = "resolve" /\ argv[1] # WordList
  /\ out' = out \o W_Resolve(argv[1], skiplist, globlist).out
  /\ status' = <<W_Resolve(argv[1], skiplist, globlist).status>>
  /\ pc' = "done"
  /\ UNCHANGED <<prog, argv, input, lineno, extractVars, scan>>

Next ==
  \/ D_ReadLine
  \/ D_Return
  \/ D_ScanEntry
  \/ D_Finish
  \/ W_Start
  \/ W_ReadLine
  \/ W_EndOfInput
  \/ W_List
  \/ W_Query

Spec == Init /\ [][Next]_vars

(***************************************************************************)
(* Properties                                                              *)
(***************************************************************************)
\* the extraction loop of the running script has consumed the whole document
Extracted == pc \in {"scan", "resolve"} \/ (pc = "done" /\ lineno = Len(input) /\ (prog = "willskip" => argv # <<>>))

\* willskip has exited after resolving a query word
Queried == prog = "willskip" /\ pc = "done" /\ argv # <<>> /\ argv[1] # WordList

\* the words the resolver is asked about: the query words and the literal entries
QueryWords == Words \cup Range(skiplist)

\* some literal category (exact, path form, basename shortcut) hits for word w
LiteralHit(w) ==
  \/ w \in Range(skiplist)
  \/ \E e \in Range(skiplist) :
        \/ w = e \o Slash \/ w = Slash \o e \/ w = Slash \o e \o Slash
        \/ (w = Basename(e) /\ e # Basename(e))

\* the number of hits skipped() counts for literal entry i
HitCount(i) == D_Skipped(skiplist[i], skiplist, globlist).count

\* ---------------------------------------------------------------- C1
\* some glob expression matches w, the slash being put before the pattern
GlobMatchSlashOnPattern(w) ==
  \E g \in Range(globlist) : FnMatch(w, g) \/ FnMatch(w, Slash \o g)

\* some glob expression matches w, the slash being put before the word
GlobMatchSlashOnWord(w) ==
  \E g \in Range(globlist) : FnMatch(w, g) \/ FnMatch(Slash \o w, g)

\* C1 as stated: the glob category hits exactly when some glob expression g
\* has word matching g or "/" + word matching g, in dupliskip.skipped and in
\* willskip.main (which reaches the glob loop when no literal category hit).
C1_Original ==
  /\ (prog = "dupliskip" /\ Extracted) =>
        \A w \in QueryWords :
           (OfKind(D_Skipped(w, skiplist, globlist).out, {"glob"}) # <<>>)
              <=> GlobMatchSlashOnWord(w)
  /\ (Queried /\ ~LiteralHit(argv[1])) =>
        ((OfKind(out, {"glob"}) # <<>>) <=> GlobMatchSlashOnWord(argv[1]))

\* C1 amended: the glob category hits exactly when some glob expression g has
\* word matching g or word matching "/" + g (the slash is put before the
\* pattern): always in dupliskip.skipped, and in willskip.main, which exits at
\* the first hit, exactly when moreover no literal category hit.
C1_GlobHit ==
  /\ (prog = "dupliskip" /\ Extracted) =>
        \A w \in QueryWords :
           (OfKind(D_Skipped(w, skiplist, globlist).out, {"glob"}) # <<>>)
              <=> GlobMatchSlashOnPattern(w)
  /\ Queried =>
        /\ (OfKind(out, {"glob"}) # <<>>)
              <=> (~LiteralHit(argv[1]) /\ GlobMatchSlashOnPattern(argv[1]))
        /\ (OfKind(out, {"glob"}) # <<>>) => status = <<0>>

\* willskip matched "/xa" through "/" + globexpr only
C1_Witness ==
  /\ Queried /\ argv[1] = WordAbsXa /\ status = <<0>>
  /\ Len(out) = 1 /\ out[1].kind = "glob"
  /\ ~FnMatch(argv[1], out[1].by) /\ FnMatch(argv[1], Slash \o out[1].by)

\* ---------------------------------------------------------------- C2
\* C2: dupliskip exits 1 whenever two literal entries are identical strings or
\* have equal, non-empty basenames, wherever they stand and whatever the globs.
C2_DuplicatesFlagged ==
  (prog = "dupliskip" /\ pc = "done") =>
     ((\E i, j \in 1..Len(skiplist) :
          /\ i < j
          /\ \/ skiplist[i] = skiplist[j]
             \/ /\ Basename(skiplist[i]) = Basename(skiplist[j])
                /\ Basename(skiplist[i]) # <<>>)
        => status = <<1>>)

\* ---------------------------------------------------------------- C3
\* C3: every literal entry of the skip set is matched when it is the query:
\* skipped() counts at least one hit for it, and willskip exits 0 for it
\* unless it is the list flag "-l".
C3_SelfMatch ==
  /\ (prog = "dupliskip" /\ Extracted) =>
        \A i \in 1..Len(skiplist) : HitCount(i) >= 1
  /\ (Queried /\ argv[1] \in Range(skiplist)) => status = <<0>>

\* willskip was asked about a literal entry that no other rule covers
C3_Witness ==
  /\ Queried /\ argv[1] \in Range(skiplist) /\ status = <<0>>
  /\ globlist = <<>> /\ Len(skiplist) > 1
  /\ WordList \in Range(skiplist)

Offending == {i \in 1..Len(skiplist) : HitCount(i) > 1}

\* the words of the "is skipped" lines printed so far: one per call of skipped()
ResolvedWords ==
  [i \in 1..Len(OfKind(out, {"skipped"})) |-> OfKind(out, {"skipped"})[i].word]

\* C5: dupliskip.main resolves the literal entries in extraction order; it
\* exits 1 naming the first entry whose hit count exceeds 1 and resolves none
\* after it; it prints the success message and exits 0 exactly when no entry
\* has a hit count above 1.
C5_ScanOrder ==
  prog = "dupliskip" =>
     /\ pc \in {"scan", "done"} => ResolvedWords = SubSeq(skiplist, 1, scan)
     /\ pc = "scan" => \A i \in 1..scan : HitCount(i) <= 1
     /\ pc = "done" =>
           IF Offending # {}
           THEN /\ status = <<1>>
                /\ scan \in Offending /\ \A i \in Offending : scan <= i
                /\ out[Len(out)] = Msg("duplicate", skiplist[scan], <<>>)
           ELSE /\ status = <<0>>
                /\ scan = Len(skiplist)
                /\ out[Len(out)] = Msg("no_duplicates", <<>>, <<>>)

\* a duplicate was reported for the second entry and the third was not resolved
C5_Witness ==
  /\ prog = "dupliskip" /\ pc = "done" /\ status = <<1>>
  /\ scan = 2 /\ Len(skiplist) = 3

\* the scan of an empty skip set ends in success
C5_WitnessEmpty ==
  prog = "dupliskip" /\ pc = "done" /\ status = <<0>> /\ skiplist = <<>>

\* ---------------------------------------------------------------- C6
\* the sequences that hold the elements of s in another order
Reorderings(s) ==
  {[i \in 1..Len(s) |-> s[p[i]]] : p \in Permutations(1..Len(s))}

\* skipped() counts at least one hit
D_Matched(w, sl, gl) == D_Skipped(w, sl, gl).count >= 1

\* willskip exits with 0
W_Matched(w, sl, gl) == W_Resolve(w, sl, gl).status = 0

ReadsLine == lineno' = lineno + 1

\* the line being read, and its trimmed, lower-cased, space-free content
CurrentLine == input[lineno + 1]
Normalised == RemoveSpaces(Strip(Lower(CurrentLine)))
SkipTrueText == <<"s", "k", "i", "p", ":", "t", "r", "u", "e">>

\* the line being read is a "skiplist:" header, a "- Filename:" record
IsHeader == StartsWith(Strip(Lower(CurrentLine)), <<"s", "k", "i", "p", "l", "i", "s", "t", ":">>)
IsRecord == StartsWith(CurrentLine, <<"-", " ", "F", "i", "l", "e", "n", "a", "m", "e", ":">>)

\* The step appended current_filename by the flag rule: outside the section
\* that is the one element the step can add, inside it the step adds the list
\* item as well.
FlagAppended ==
  /\ Len(skiplist') + Len(globlist') =
        Len(skiplist) + Len(globlist) + (IF found_skiplist THEN 2 ELSE 1)
  /\ skiplist'[Len(skiplist) + 1] = current_filename

\* C7 as stated: the flag rule appends current_filename only when the
\* normalised content of the line equals "skip:true".
C7_Original ==
  [][(ReadsLine /\ FlagAppended) => Normalised = SkipTrueText]_vars

\* C7 amended: a line appends current_filename by the flag rule exactly when
\* it is neither a "skiplist:" line nor a "- Filename:" line and its
\* normalised content contains "skip:true"; other characters around it do
\* not prevent the append.
C7_FlagRule ==
  [][ReadsLine =>
       /\ FlagAppended <=>
             (~IsHeader /\ ~IsRecord /\ Contains(Normalised, SkipTrueText))
       /\ ~FlagAppended =>
             Len(skiplist') + Len(globlist') =
                Len(skiplist) + Len(globlist)
                   + (IF found_skiplist /\ ~IsHeader /\ ~IsRecord THEN 1 ELSE 0)]_vars

\* "Skip: true # a" was read after a filename record and appended its filename
C7_Witness ==
  /\ pc = "read" /\ lineno = 2 /\ ~found_skiplist
  /\ input[1] = LineFilename /\ input[2] = LineSkipTrueComment
  /\ skiplist = <<current_filename>> /\ current_filename = WordXA

\* ---------------------------------------------------------------- C8
\* the list item of the line being read
CurrentItem ==
  IF StartsWith(Strip(CurrentLine), <<"-">>)
  THEN Strip(DropFirst(Strip(CurrentLine), 1))
  ELSE Strip(CurrentLine)

\* the step added exactly element x at the end of sequence s
AddedOne(s, t, x) == t = Append(s, x)

\* C8 as stated: in the section every line other than a "skiplist:" line,
\* "- Filename:" lines included, adds exactly one element: to the glob list if
\* the item contains "*", to the literal sequence otherwise.
C8_Original ==
  [][(ReadsLine /\ found_skiplist) =>
       /\ found_skiplist'
       /\ ~IsHeader =>
             IF Contains(CurrentItem, <<"*">>)
             THEN Len(globlist') = Len(globlist) + 1 /\ skiplist' = skiplist
             ELSE AddedOne(skiplist, skiplist', CurrentItem) /\ globlist' = globlist]_vars

\* C8 amended: the section flag, once set, stays set; in the section a
\* "skiplist:" line adds nothing, a line starting with "- Filename:" adds
\* nothing and sets current_filename, and every other line adds exactly one
\* list item (to the glob list if the item contains "*", to the literal
\* sequence otherwise), after current_filename when the flag rule applies to
\* the line too.
C8_SectionItems ==
  [][/\ found_skiplist => found_skiplist'
     /\ (ReadsLine /\ found_skiplist) =>
          LET flag == IF Contains(Normalised, SkipTrueText)
                      THEN <<current_filename>> ELSE <<>>
          IN  IF IsHeader
              THEN skiplist' = skiplist /\ globlist' = globlist
                   /\ current_filename' = current_filename
              ELSE IF IsRecord
              THEN skiplist' = skiplist /\ globlist' = globlist
                   /\ current_filename' = Strip(DropFirst(CurrentLine, 11))
              ELSE IF Contains(CurrentItem, <<"*">>)
              THEN /\ Len(globlist') = Len(globlist) + 1
                   /\ SubSeq(globlist', 1, Len(globlist)) = globlist
                   /\ Contains(globlist'[Len(globlist')], <<"*">>)
                   /\ skiplist' = skiplist \o flag
              ELSE /\ skiplist' = skiplist \o flag \o <<CurrentItem>>
                   /\ globlist' = globlist]_vars

\* a "- Filename:" line was read in the section: it added no element
C8_Witness ==
  /\ pc = "read" /\ found_skiplist /\ lineno = 2
  /\ input[1] = LineSkiplist /\ input[2] = LineFilename
  /\ skiplist = <<>> /\ globlist = <<>> /\ current_filename = WordXA

\* ---------------------------------------------------------------- C9
\* C9: skipped() counts a hit of the basename shortcut whenever the word is
\* the basename of a literal entry that has a directory part, wherever that
\* entry stands; an entry that is its own basename and equals the word does
\* not keep later entries from being checked.
C9_BasenameShortcut ==
  (prog = "dupliskip" /\ Extracted) =>
     \A w \in QueryWords :
        (\E e \in Range(skiplist) : w = Basename(e) /\ e # Basename(e))
           => OfKind(D_Skipped(w, skiplist, globlist).out, {"path"}) # <<>>

\* ---------------------------------------------------------------- C10
\* C10: the two copies agree.  Both extraction loops give the same literal
\* and glob sequences for the same document; for a query word other than
\* "-l" willskip exits 0 exactly when skipped() counts a hit, and when it
\* does not, willskip prints a similarity note exactly when skipped() does.
C10_CopiesAgree ==
  /\ (prog = "willskip" /\ pc = "resolve") =>
        LET d == D_Extract(input)
        IN  skiplist = d.skiplist /\ globlist = d.globlist
  /\ (prog = "dupliskip" /\ pc = "scan" /\ scan = 0) =>
        LET w == W_Extract(input)
        IN  skiplist = w.skiplist /\ globlist = w.globlist
  /\ Queried =>
        LET r == D_Skipped(argv[1], skiplist, globlist)
        IN  /\ status = <<0>> <=> r.count >= 1
            /\ status # <<0>> =>
                  ((OfKind(out, SimilarKinds) # <<>>) <=>
                     (OfKind(r.out, SimilarKinds) # <<>>))

\* willskip did not match "b/xa" and printed the similar glob, as skipped() does
C10_Witness ==
  /\ Queried /\ argv[1] = WordBXa /\ status = <<1>>
  /\ Len(out) = 1 /\ out[1].kind = "similar_glob"
  /\ D_Skipped(argv[1], skiplist, globlist).count = 0
  /\ Len(skiplist) > 0

=============================================================================
